---- MODULE Spec2Model ----
(***************************************************************************)
(* Model of the partitioned coupling driver of the solid-energy solver     *)
(* (appl/conjugateheattransfer/iterative/main_solidenergy.cc).             *)
(*                                                                         *)
(* The driver is one sequential program; pc is its position in main().     *)
(* Times and step sizes are counted in integer ticks.  Solution vectors    *)
(* and the grid variables derived from them are abstracted to small        *)
(* integers: two vectors are equal iff their numbers are equal, and grid   *)
(* variables are identified with the solution they were derived from.      *)
(***************************************************************************)
EXTENDS Integers, Sequences, FiniteSets, TLC

\* ------------------------------------------------------------------------
\* Bounds of the model
\* ------------------------------------------------------------------------
TEnd == 3                  \* TimeLoop.TEnd, in ticks
MaxDtInitial == 2          \* largest TimeLoop.DtInitial tried
MaxPreciceDt == 2          \* largest step size the substrate returns
MaxSol == 1                \* solution vectors are 0..MaxSol
MaxTimeStepDivisions == 1  \* retries of the Newton solver with halved dt
MaxFaces == 1              \* boundary faces of the grid
MaxCount == 3              \* the counters of solves and updates stop here
MaxGridFaces == 7          \* boundary faces of the grids of SpecExtract
MaxFaceId == 3             \* face ids handed to the adapter: 1..MaxFaceId
MaxIds == 3                \* longest sequence of face ids handed over

SolValues == 0..MaxSol
PreciceDts == 1..MaxPreciceDt
DtInitials == 1..MaxDtInitial
MaxTimeStepSizes == {1, TEnd}

\* the two checkpoint actions of the substrate
writeCheckpoint == "writeIterationCheckpoint"
readCheckpoint == "readIterationCheckpoint"
Actions == {writeCheckpoint, readCheckpoint}

gridDimension == 2         \* the driver's grid is two-dimensional
PreciceDims == {2, 3}      \* what the substrate may report
NoVal == -1                \* an object that is not constructed yet
Running == -1              \* exit code while main() has not returned

VARIABLES
    driver,          \* which main() runs: "solidEnergy" or "darcy"
    pc,              \* position in main()
    exitCode,        \* exit status of the process, Running before it ends
    thrown,          \* the exception that ended main(), "" if none
    coords,          \* the coordinates collected by the interface traversal
    coupledScvfIndices,  \* the face indices collected by the traversal
    sol,             \* the solution vector
    solOld,          \* the previous solution handed to the assembler
    sol_checkpoint,  \* the checkpoint copy of the solution
    prevSol,         \* what the assembler holds after setPreviousSolution
    gridVars,        \* solidEnergyGridVariables: [cur, prev]
    ffGridVars,      \* freeFlowGridVariables, the object line 240 updates
    timeLoop,        \* [time, dt, idx, maxDt, finalized]
    precice,         \* substrate: [dim, required, ongoing, calls, ...]
    preciceDt,       \* the value the last initialize()/advance() returned
    vtkTimes,        \* the times of the VTK frames written so far
    accepted,        \* number of iterations that took the accept branch
    iterStart,       \* solOld, grid state and clock at the top of the iteration
    iterEvents,      \* what the driver did in the current iteration, in order
    hist,            \* what happened earlier in the run, for the properties
    dumuxFaceIDs,    \* the face ids handed to setMeshAndInitialize
    indexMapper,     \* PreciceAdapter::indexMapper_: [state, toIndex, toLocal]
    lookup           \* the last lookup made in the index mapper

vars == <<driver, pc, exitCode, thrown, coords, coupledScvfIndices, hist,
          sol, solOld, sol_checkpoint, prevSol, gridVars,
          ffGridVars, timeLoop, precice, preciceDt, vtkTimes, accepted,
          iterStart, iterEvents, dumuxFaceIDs, indexMapper, lookup>>

solverVars == <<sol, solOld, sol_checkpoint, prevSol, gridVars, ffGridVars>>
ghostVars == <<accepted, iterStart, hist>>
exitVars == <<exitCode, thrown>>
mapperVars == <<dumuxFaceIDs, indexMapper, lookup>>
meshVars == <<driver, coords, coupledScvfIndices, mapperVars>>

Min(a, b) == IF a <= b THEN a ELSE b
Max(a, b) == IF a >= b THEN a ELSE b

Drivers == {"solidEnergy", "darcy"}

\* the objects of main() before anything is constructed
Fresh ==
    /\ exitCode = Running
    /\ thrown = ""
    /\ coords = <<>>
    /\ coupledScvfIndices = <<>>
    /\ hist = [dtInitial |-> 0, suggestion |-> 0, lastSaved |-> NoVal,
               lastRestored |-> NoVal, restoredTwice |-> FALSE,
               solves |-> 0, solOldUpdates |-> 0, rolledBack |-> 0]
    /\ sol = NoVal
    /\ solOld = NoVal
    /\ sol_checkpoint = NoVal
    /\ prevSol = NoVal
    /\ gridVars = [cur |-> NoVal, prev |-> NoVal]
    /\ ffGridVars = NoVal
    /\ timeLoop = [time |-> 0, dt |-> 0, idx |-> 0, maxDt |-> 0,
                   started |-> FALSE, finalized |-> 0]
    /\ precice = [dim |-> 0, required |-> {}, ongoing |-> FALSE,
                  meshVertices |-> NoVal, initialized |-> FALSE,
                  finalized |-> 0, calls |-> <<>>]
    /\ preciceDt = 0
    /\ vtkTimes = <<>>
    /\ accepted = 0
    /\ iterStart = [solOld |-> NoVal, gridPrev |-> NoVal,
                    checkpoint |-> NoVal, time |-> 0, dt |-> 0, idx |-> 0]
    /\ iterEvents = <<>>
    /\ indexMapper = [state |-> "empty", toIndex |-> <<>>, toLocal |-> <<>>]
    /\ lookup = <<>>

Init ==
    /\ driver \in Drivers
    /\ pc = IF driver = "solidEnergy" THEN "parametersInit"
                                      ELSE "darcyParametersInit"
    /\ dumuxFaceIDs = <<>>
    /\ Fresh

\* ------------------------------------------------------------------------
\* The time loop of the framework, as the driver uses it
\* ------------------------------------------------------------------------

\* TimeLoop::finished(): the end time is reached
finished(tl) == tl.time >= TEnd

\* TimeLoop::maxTimeStepSize(): the user's limit and the time that is left
maxTimeStepSize(tl) ==
    IF finished(tl) THEN 0 ELSE Min(tl.maxDt, TEnd - tl.time)

\* TimeLoop::setTimeStepSize(dt): the step size is clamped by the limit
setTimeStepSize(tl, d) == [tl EXCEPT !.dt = Min(d, maxTimeStepSize(tl))]

\* TimeLoop::advanceTimeStep(): the clock moves by the current step size
advanceTimeStep(tl) ==
    LET moved == [tl EXCEPT !.time = tl.time + tl.dt, !.idx = tl.idx + 1]
    IN  setTimeStepSize(moved, moved.dt)

\* NewtonSolver::suggestTimeStepSize(hint): a value around the hint, smaller
\* after many Newton iterations, larger after few, the hint itself in between
suggestTimeStepSize(hint) ==
    {d \in 1..(2 * hint) : hint <= 2 * d}

\* dt after r retries of the Newton solver, each one halving the step size
RECURSIVE Pow2(_)
Pow2(r) == IF r = 0 THEN 1 ELSE 2 * Pow2(r - 1)
CanHalve(d, r) == d % Pow2(r) = 0 /\ d \div Pow2(r) >= 1
Halved(d, r) == d \div Pow2(r)

\* the record of one thing the driver did; arg names the substrate action
Ev(e) == [ev |-> e, arg |-> ""]
EvOn(e, a) == [ev |-> e, arg |-> a]
Log(e) == iterEvents' = Append(iterEvents, e)

\* the exception classes the drivers meet, each with its base class
BaseOf(e) ==
    CASE e = "Dumux::ParameterException" -> "Dune::Exception"
      [] e = "Dune::DGFException" -> "Dune::IOError"
      [] e = "Dune::IOError" -> "Dune::Exception"
      [] e = "Dune::InvalidStateException" -> "Dune::Exception"
      [] e = "Dumux::NumericalProblem" -> "Dune::Exception"
      [] OTHER -> ""
RECURSIVE IsA(_, _)
IsA(e, base) == e # "" /\ (e = base \/ IsA(BaseOf(e), base))

\* the catch clauses of the solid-energy main(), tried in their order
catchClauses(e) ==
    IF IsA(e, "Dumux::ParameterException") THEN 1
    ELSE IF IsA(e, "Dune::DGFException") THEN 2
    ELSE IF IsA(e, "Dune::Exception") THEN 3
    ELSE 4

\* an exception thrown inside the try block of the solid-energy main()
Throw(e) ==
    /\ pc' = "done"
    /\ thrown' = e
    /\ exitCode' = catchClauses(e)

\* ------------------------------------------------------------------------
\* The coupling substrate, as far as the driver observes it
\* ------------------------------------------------------------------------
\* the substrate takes note of a lifecycle call it receives
Called(p, c) == [p EXCEPT !.calls = Append(@, c)]

isActionRequired(p, a) == a \in p.required
fulfilledAction(p, a) == [p EXCEPT !.required = @ \ {a}]
isCouplingOngoing(p) == p.ongoing

\* initialize(): the coupling starts; an implicit scheme asks for a first
\* checkpoint, an explicit one asks for nothing
InitializeResults(p) ==
    {[Called(p, "initialize") EXCEPT
          !.required = req, !.ongoing = TRUE, !.initialized = TRUE] :
        req \in SUBSET {writeCheckpoint}}

\* advance(dt): the substrate decides whether the iteration converged, which
\* actions it requires next and whether the coupling goes on
AdvanceResults(p) ==
    {[p EXCEPT !.required = req, !.ongoing = on] :
        req \in SUBSET Actions, on \in {b \in BOOLEAN : b => p.ongoing}}

\* ------------------------------------------------------------------------
\* main(): start-up
\* ------------------------------------------------------------------------

\* Parameters::init(argc, argv)
ParametersInit ==
    /\ pc = "parametersInit"
    /\ \/ pc' = "gridInit" /\ UNCHANGED exitVars
       \/ Throw("Dumux::ParameterException")
    /\ UNCHANGED <<meshVars, solverVars, timeLoop, precice, preciceDt,
                   vtkTimes, ghostVars, iterEvents>>

\* solidEnergyGridManager.init("SolidEnergy") up to sol.resize(numDofs)
GridInit ==
    /\ pc = "gridInit"
    /\ \/ pc' = "preciceConfigure" /\ UNCHANGED exitVars
       \/ Throw("Dune::DGFException")
    /\ UNCHANGED <<meshVars, solverVars, timeLoop, precice, preciceDt,
                   vtkTimes, ghostVars, iterEvents>>

\* precice::SolverInterface precice(...); precice.configure(...); a failure
\* of the substrate surfaces as an exception that is no Dune::Exception
PreciceConfigure ==
    /\ pc = "preciceConfigure"
    /\ \/ /\ \E d \in PreciceDims :
                precice' = [Called(Called(precice, "SolverInterface"),
                                   "configure") EXCEPT !.dim = d]
          /\ pc' = "getDimensions"
          /\ UNCHANGED exitVars
       \/ /\ Throw("std::runtime_error")
          /\ UNCHANGED precice
    /\ UNCHANGED <<meshVars, solverVars, timeLoop, preciceDt, vtkTimes,
                   ghostVars, iterEvents>>

\* a start-up that reads the dimension and goes on
GetDimensionsUnchecked ==
    /\ pc = "getDimensions"
    /\ precice' = Called(precice, "getDimensions")
    /\ pc' = "setMeshVertices"
    /\ UNCHANGED exitVars
    /\ UNCHANGED <<meshVars, solverVars, timeLoop, preciceDt, vtkTimes,
                   ghostVars, iterEvents>>

\* dim = precice.getDimensions(); a mismatch throws InvalidStateException
GetDimensions ==
    /\ pc = "getDimensions"
    /\ precice' = Called(precice, "getDimensions")
    /\ IF precice.dim # gridDimension
         THEN Throw("Dune::InvalidStateException")
         ELSE pc' = "setMeshVertices" /\ UNCHANGED exitVars
    /\ UNCHANGED <<meshVars, solverVars, timeLoop, preciceDt, vtkTimes,
                   ghostVars, iterEvents>>

\* the boundary faces of a grid in traversal order; the faces of top lie
\* on the upper boundary of the bounding box
GridTop == 10
eps == 1
Faces(n, top) ==
    [i \in 1..n |->
        [index |-> i, center |-> <<i, IF i \in top THEN GridTop ELSE 0>>]]

\* a traversal that keeps only the first coordinate of a coupling face
RECURSIVE ExtractInterfaceFirstCoordinate(_, _)
ExtractInterfaceFirstCoordinate(faces, acc) ==
    IF faces = <<>> THEN acc
    ELSE LET scvf == Head(faces)
             pos == scvf.center
         IN  ExtractInterfaceFirstCoordinate(Tail(faces),
                 IF pos[2] > GridTop - eps
                   THEN [ids |-> Append(acc.ids, scvf.index),
                         coords |-> Append(acc.coords, pos[1])]
                   ELSE acc)

\* the loop over the faces: a face whose centre lies within eps of the top
\* of the bounding box adds its index and all its coordinates
RECURSIVE ExtractInterface(_, _)
ExtractInterface(faces, acc) ==
    IF faces = <<>> THEN acc
    ELSE LET scvf == Head(faces)
             pos == scvf.center
         IN  ExtractInterface(Tail(faces),
                 IF pos[2] > GridTop - eps
                   THEN [ids |-> Append(acc.ids, scvf.index),
                         coords |-> acc.coords \o pos]
                   ELSE acc)

\* vertexSize = coords.size() / dim
vertexSize(c, dim) == Len(c) \div dim

\* the traversal of the coupling faces and precice.setMeshVertices(...),
\* on a grid of n boundary faces
SetMeshVerticesOn(n) ==
    /\ pc = "setMeshVertices"
    /\ \E top \in SUBSET (1..n) :
          LET found == ExtractInterface(Faces(n, top),
                                        [ids |-> <<>>, coords |-> <<>>])
          IN  /\ coupledScvfIndices' = found.ids
              /\ coords' = found.coords
              /\ precice' = [Called(precice, "setMeshVertices") EXCEPT
                     !.meshVertices = vertexSize(found.coords, precice.dim)]
    /\ pc' = "applyInitialSolution"
    /\ UNCHANGED <<driver, mapperVars, exitVars, solverVars, timeLoop,
                   preciceDt, vtkTimes, ghostVars, iterEvents>>

SetMeshVertices == SetMeshVerticesOn(MaxFaces)

\* the start-up of the driver up to the registration of the mesh, on grids
\* of up to MaxGridFaces boundary faces
ExtractInit ==
    /\ driver = "solidEnergy"
    /\ pc = "parametersInit"
    /\ dumuxFaceIDs = <<>>
    /\ Fresh

ExtractNext ==
    \/ ParametersInit
    \/ GridInit
    \/ PreciceConfigure
    \/ GetDimensions
    \/ \E n \in 0..MaxGridFaces : SetMeshVerticesOn(n)

SpecExtract == ExtractInit /\ [][ExtractNext]_vars

\* solidEnergyProblem->applyInitialSolution(sol)
ApplyInitialSolution ==
    /\ pc = "applyInitialSolution"
    /\ sol' \in SolValues
    /\ pc' = "initialize"
    /\ UNCHANGED <<meshVars, exitVars, solOld, sol_checkpoint, prevSol,
                   gridVars, ffGridVars, timeLoop, precice, preciceDt,
                   vtkTimes, ghostVars, iterEvents>>

\* const double preciceDt = precice.initialize()
PreciceInitialize ==
    /\ pc = "initialize"
    /\ precice' \in InitializeResults(precice)
    /\ preciceDt' \in PreciceDts
    /\ pc' = "initializeData"
    /\ UNCHANGED <<meshVars, exitVars, solverVars, timeLoop, vtkTimes,
                   ghostVars, iterEvents>>

\* a start-up that leaves the initial data exchange out
PreciceInitializeDataSkipped ==
    /\ pc = "initializeData"
    /\ pc' = "setupSolver"
    /\ UNCHANGED <<meshVars, exitVars, solverVars, timeLoop, precice,
                   preciceDt, vtkTimes, ghostVars, iterEvents>>

\* precice.initializeData()
PreciceInitializeData ==
    /\ pc = "initializeData"
    /\ precice' = Called(precice, "initializeData")
    /\ pc' = "setupSolver"
    /\ UNCHANGED <<meshVars, exitVars, solverVars, timeLoop, preciceDt,
                   vtkTimes, ghostVars, iterEvents>>

\* solOld = sol; gridVariables->init(sol); vtkWriter.write(0.0)
SetupSolver ==
    /\ pc = "setupSolver"
    /\ solOld' = sol
    /\ gridVars' = [cur |-> sol, prev |-> sol]
    /\ vtkTimes' = Append(vtkTimes, 0)
    /\ pc' = "timeLoopSetup"
    /\ UNCHANGED <<meshVars, exitVars, sol, sol_checkpoint, prevSol,
                   ffGridVars, timeLoop, precice, preciceDt, ghostVars,
                   iterEvents>>

\* a set-up that starts with the user's step size alone
TimeLoopSetupUserDt ==
    /\ pc = "timeLoopSetup"
    /\ \/ /\ \E dtInitial \in DtInitials, maxDt \in MaxTimeStepSizes :
                /\ timeLoop' = setTimeStepSize(
                       [time |-> 0, dt |-> dtInitial,
                        idx |-> 0, maxDt |-> maxDt, started |-> TRUE,
                        finalized |-> 0],
                       dtInitial)
                /\ hist' = [hist EXCEPT !.dtInitial = dtInitial,
                                        !.lastSaved = sol]
          /\ sol_checkpoint' = sol
          /\ pc' = "queryWrite"
          /\ UNCHANGED exitVars
       \/ /\ Throw("Dumux::ParameterException")
          /\ UNCHANGED <<timeLoop, sol_checkpoint, hist>>
    /\ UNCHANGED <<meshVars, sol, solOld, prevSol, gridVars, ffGridVars,
                   precice, preciceDt, vtkTimes, accepted, iterStart,
                   iterEvents>>

\* a set-up that leaves the checkpoint variable as it was constructed
TimeLoopSetupNoCopy ==
    /\ pc = "timeLoopSetup"
    /\ \/ /\ \E dtInitial \in DtInitials, maxDt \in MaxTimeStepSizes :
                /\ timeLoop' = setTimeStepSize(
                       [time |-> 0, dt |-> Max(dtInitial, preciceDt),
                        idx |-> 0, maxDt |-> maxDt, started |-> TRUE,
                        finalized |-> 0],
                       Max(dtInitial, preciceDt))
                /\ hist' = [hist EXCEPT !.dtInitial = dtInitial,
                                        !.lastSaved = sol]
          /\ pc' = "queryWrite"
          /\ UNCHANGED <<exitVars, sol_checkpoint>>
       \/ /\ Throw("Dumux::ParameterException")
          /\ UNCHANGED <<timeLoop, sol_checkpoint, hist>>
    /\ UNCHANGED <<meshVars, sol, solOld, prevSol, gridVars, ffGridVars,
                   precice, preciceDt, vtkTimes, accepted, iterStart,
                   iterEvents>>

\* the parameters of the time loop are read, a missing one throws;
\* dt = max(DtInitial, preciceDt); the time loop is made and limited by
\* MaxTimeStepSize; sol_checkpoint = sol; timeLoop->start()
TimeLoopSetup ==
    /\ pc = "timeLoopSetup"
    /\ \/ /\ \E dtInitial \in DtInitials, maxDt \in MaxTimeStepSizes :
                /\ timeLoop' = setTimeStepSize(
                       [time |-> 0, dt |-> Max(dtInitial, preciceDt),
                        idx |-> 0, maxDt |-> maxDt, started |-> TRUE,
                        finalized |-> 0],
                       Max(dtInitial, preciceDt))
                /\ hist' = [hist EXCEPT !.dtInitial = dtInitial,
                                        !.lastSaved = sol]
          /\ sol_checkpoint' = sol
          /\ pc' = "queryWrite"
          /\ UNCHANGED exitVars
       \/ /\ Throw("Dumux::ParameterException")
          /\ UNCHANGED <<timeLoop, sol_checkpoint, hist>>
    /\ UNCHANGED <<meshVars, sol, solOld, prevSol, gridVars, ffGridVars,
                   precice, preciceDt, vtkTimes, accepted, iterStart,
                   iterEvents>>

\* ------------------------------------------------------------------------
\* main(): the coupling loop, one action per statement
\* ------------------------------------------------------------------------

\* a query whose true branch acknowledges without copying the solution
QueryWriteAckOnly ==
    /\ pc = "queryWrite"
    /\ iterStart' = [solOld |-> solOld, gridPrev |-> gridVars.prev,
                     checkpoint |-> sol_checkpoint,
                     time |-> timeLoop.time, dt |-> timeLoop.dt,
                     idx |-> timeLoop.idx]
    /\ hist' = [hist EXCEPT !.dtInitial = 0]
    /\ IF isActionRequired(precice, writeCheckpoint)
         THEN /\ iterEvents' = <<EvOn("query", writeCheckpoint)>>
              /\ pc' = "ackWrite"
         ELSE /\ iterEvents' = <<>>
              /\ pc' = "setPreviousSolution"
    /\ UNCHANGED <<meshVars, exitVars, solverVars, timeLoop, precice,
                   preciceDt, vtkTimes, accepted>>

\* a loop top that copies the solution whether or not it is asked to
QueryWriteAlwaysSave ==
    /\ pc = "queryWrite"
    /\ iterStart' = [solOld |-> solOld, gridPrev |-> gridVars.prev,
                     checkpoint |-> sol_checkpoint,
                     time |-> timeLoop.time, dt |-> timeLoop.dt,
                     idx |-> timeLoop.idx]
    /\ hist' = [hist EXCEPT !.dtInitial = 0]
    /\ IF isActionRequired(precice, writeCheckpoint)
         THEN /\ iterEvents' = <<EvOn("query", writeCheckpoint)>>
              /\ pc' = "save"
         ELSE /\ iterEvents' = <<>>
              /\ pc' = "save"
    /\ UNCHANGED <<meshVars, exitVars, solverVars, timeLoop, precice,
                   preciceDt, vtkTimes, accepted>>

\* do { if ( precice.isActionRequired( writeCheckpoint ) )
QueryWrite ==
    /\ pc = "queryWrite"
    /\ iterStart' = [solOld |-> solOld, gridPrev |-> gridVars.prev,
                     checkpoint |-> sol_checkpoint,
                     time |-> timeLoop.time, dt |-> timeLoop.dt,
                     idx |-> timeLoop.idx]
    /\ hist' = [hist EXCEPT !.dtInitial = 0]
    /\ IF isActionRequired(precice, writeCheckpoint)
         THEN /\ iterEvents' = <<EvOn("query", writeCheckpoint)>>
              /\ pc' = "save"
         ELSE /\ iterEvents' = <<>>
              /\ pc' = "setPreviousSolution"
    /\ UNCHANGED <<meshVars, exitVars, solverVars, timeLoop, precice,
                   preciceDt, vtkTimes, accepted>>

\* sol_checkpoint = sol
SaveCheckpoint ==
    /\ pc = "save"
    /\ sol_checkpoint' = sol
    /\ hist' = [hist EXCEPT !.lastSaved = sol, !.lastRestored = NoVal,
                            !.restoredTwice = FALSE]
    /\ Log(Ev("save"))
    /\ pc' = "ackWrite"
    /\ UNCHANGED <<meshVars, exitVars, sol, solOld, prevSol, gridVars,
                   ffGridVars, timeLoop, precice, preciceDt, vtkTimes,
                   accepted, iterStart>>

\* precice.fulfilledAction( writeCheckpoint )
AckWrite ==
    /\ pc = "ackWrite"
    /\ precice' = fulfilledAction(precice, writeCheckpoint)
    /\ Log(EvOn("ack", writeCheckpoint))
    /\ pc' = "setPreviousSolution"
    /\ UNCHANGED <<meshVars, exitVars, solverVars, timeLoop, preciceDt,
                   vtkTimes, ghostVars>>

\* assembler->setPreviousSolution(solOld)
SetPreviousSolution ==
    /\ pc = "setPreviousSolution"
    /\ prevSol' = solOld
    /\ Log(Ev("setPreviousSolution"))
    /\ pc' = "solve"
    /\ UNCHANGED <<meshVars, exitVars, sol, solOld, sol_checkpoint, gridVars,
                   ffGridVars, timeLoop, precice, preciceDt, vtkTimes,
                   ghostVars>>

\* a solve whose failure is answered with a restore of the checkpoint
SolveRollsBack ==
    /\ pc = "solve"
    /\ \E r \in 0..MaxTimeStepDivisions, u \in SolValues,
          converged \in BOOLEAN :
          /\ CanHalve(timeLoop.dt, r)
          /\ timeLoop' = setTimeStepSize(timeLoop, Halved(timeLoop.dt, r))
          /\ sol' = u
          /\ gridVars' = [gridVars EXCEPT !.cur = u]
          /\ pc' = IF converged THEN "makeOld" ELSE "restore"
          /\ UNCHANGED exitVars
    /\ hist' = [hist EXCEPT !.solves = Min(@ + 1, MaxCount)]
    /\ Log(Ev("solve"))
    /\ UNCHANGED <<meshVars, solOld, sol_checkpoint, prevSol, ffGridVars,
                   precice, preciceDt, vtkTimes, accepted, iterStart>>

\* nonLinearSolver.solve(sol, *timeLoop): the solver converges, possibly
\* after retries that each halve the step size of the time loop, or it
\* gives up and throws NumericalProblem (a Dune::Exception)
Solve ==
    /\ pc = "solve"
    /\ \E r \in 0..MaxTimeStepDivisions, u \in SolValues,
          converged \in BOOLEAN :
          /\ CanHalve(timeLoop.dt, r)
          /\ timeLoop' = setTimeStepSize(timeLoop, Halved(timeLoop.dt, r))
          /\ sol' = u
          /\ gridVars' = [gridVars EXCEPT !.cur = u]
          /\ IF converged
               THEN pc' = "makeOld" /\ UNCHANGED exitVars
               ELSE Throw("Dumux::NumericalProblem")
    /\ hist' = [hist EXCEPT !.solves = Min(@ + 1, MaxCount)]
    /\ Log(Ev("solve"))
    /\ UNCHANGED <<meshVars, solOld, sol_checkpoint, prevSol, ffGridVars,
                   precice, preciceDt, vtkTimes, accepted, iterStart>>

\* solOld = sol
MakeOld ==
    /\ pc = "makeOld"
    /\ solOld' = sol
    /\ hist' = [hist EXCEPT !.solOldUpdates = Min(@ + 1, MaxCount)]
    /\ Log(Ev("solOld"))
    /\ pc' = "gridAdvance"
    /\ UNCHANGED <<meshVars, exitVars, sol, sol_checkpoint, prevSol,
                   gridVars, ffGridVars, timeLoop, precice, preciceDt,
                   vtkTimes, accepted, iterStart>>

\* an advance of the grid variables that takes the clock along
GridAdvanceWithClock ==
    /\ pc = "gridAdvance"
    /\ gridVars' = [gridVars EXCEPT !.prev = gridVars.cur]
    /\ timeLoop' = advanceTimeStep(timeLoop)
    /\ Log(Ev("gridAdvance"))
    /\ pc' = "queryRead"
    /\ UNCHANGED <<meshVars, exitVars, sol, solOld, sol_checkpoint, prevSol,
                   ffGridVars, precice, preciceDt, vtkTimes, ghostVars>>

\* solidEnergyGridVariables->advanceTimeStep()
GridAdvance ==
    /\ pc = "gridAdvance"
    /\ gridVars' = [gridVars EXCEPT !.prev = gridVars.cur]
    /\ Log(Ev("gridAdvance"))
    /\ pc' = "queryRead"
    /\ UNCHANGED <<meshVars, exitVars, sol, solOld, sol_checkpoint, prevSol,
                   ffGridVars, timeLoop, precice, preciceDt, vtkTimes,
                   ghostVars>>

\* if ( precice.isActionRequired( readCheckpoint ) ) ... else ...
QueryRead ==
    /\ pc = "queryRead"
    /\ IF isActionRequired(precice, readCheckpoint)
         THEN /\ Log(EvOn("query", readCheckpoint))
              /\ pc' = "restore"
              /\ hist' = [hist EXCEPT !.rolledBack = Min(@ + 1, MaxCount)]
              /\ UNCHANGED accepted
         ELSE /\ Log(Ev("accept"))
              /\ pc' = "timeLoopAdvance"
              /\ accepted' = accepted + 1
              /\ UNCHANGED hist
    /\ UNCHANGED <<meshVars, exitVars, solverVars, timeLoop, precice,
                   preciceDt, vtkTimes, iterStart>>

\* a restore that also emits a frame and moves the clock
RestoreAsAccepted ==
    /\ pc = "restore"
    /\ sol' = sol_checkpoint
    /\ timeLoop' = advanceTimeStep(timeLoop)
    /\ vtkTimes' = Append(vtkTimes, timeLoop'.time)
    /\ hist' = [hist EXCEPT !.lastRestored = sol_checkpoint,
                            !.restoredTwice = (hist.lastRestored # NoVal)]
    /\ Log(Ev("restore"))
    /\ pc' = "gridUpdate"
    /\ UNCHANGED <<meshVars, exitVars, solOld, sol_checkpoint, prevSol,
                   gridVars, ffGridVars, precice, preciceDt, accepted,
                   iterStart>>

\* a restore that moves the snapshot out of the checkpoint
RestoreConsuming ==
    /\ pc = "restore"
    /\ sol' = sol_checkpoint
    /\ sol_checkpoint' = NoVal
    /\ hist' = [hist EXCEPT !.lastRestored = sol_checkpoint,
                            !.restoredTwice = (hist.lastRestored # NoVal)]
    /\ Log(Ev("restore"))
    /\ pc' = "gridUpdate"
    /\ UNCHANGED <<meshVars, exitVars, solOld, prevSol, gridVars, ffGridVars,
                   timeLoop, precice, preciceDt, vtkTimes, accepted,
                   iterStart>>

\* sol = sol_checkpoint
Restore ==
    /\ pc = "restore"
    /\ sol' = sol_checkpoint
    /\ hist' = [hist EXCEPT !.lastRestored = sol_checkpoint,
                            !.restoredTwice = (hist.lastRestored # NoVal)]
    /\ Log(Ev("restore"))
    /\ pc' = "gridUpdate"
    /\ UNCHANGED <<meshVars, exitVars, solOld, sol_checkpoint, prevSol,
                   gridVars, ffGridVars, timeLoop, precice, preciceDt,
                   vtkTimes, accepted, iterStart>>

\* freeFlowGridVariables->update(sol)
GridUpdate ==
    /\ pc = "gridUpdate"
    /\ ffGridVars' = sol
    /\ Log(Ev("gridUpdate"))
    /\ pc' = "ackRead"
    /\ UNCHANGED <<meshVars, exitVars, sol, solOld, sol_checkpoint, prevSol,
                   gridVars, timeLoop, precice, preciceDt, vtkTimes,
                   ghostVars>>

\* precice.fulfilledAction( writeCheckpoint ), in the read branch
AckRead ==
    /\ pc = "ackRead"
    /\ precice' = fulfilledAction(precice, writeCheckpoint)
    /\ Log(EvOn("ack", writeCheckpoint))
    /\ pc' = "loopCondition"
    /\ UNCHANGED <<meshVars, exitVars, solverVars, timeLoop, preciceDt,
                   vtkTimes, ghostVars>>

\* timeLoop->advanceTimeStep()
TimeLoopAdvance ==
    /\ pc = "timeLoopAdvance"
    /\ timeLoop' = advanceTimeStep(timeLoop)
    /\ Log(Ev("timeLoopAdvance"))
    /\ pc' = "vtkWrite"
    /\ UNCHANGED <<meshVars, exitVars, solverVars, precice, preciceDt,
                   vtkTimes, ghostVars>>

\* a frame stamped with the time before the step
VtkWriteStartTime ==
    /\ pc = "vtkWrite"
    /\ vtkTimes' = Append(vtkTimes, iterStart.time)
    /\ Log(Ev("vtkWrite"))
    /\ pc' = "preciceAdvance"
    /\ UNCHANGED <<meshVars, exitVars, solverVars, timeLoop, precice,
                   preciceDt, ghostVars>>

\* solidEnergyVtkWriter.write(timeLoop->time())
VtkWrite ==
    /\ pc = "vtkWrite"
    /\ vtkTimes' = Append(vtkTimes, timeLoop.time)
    /\ Log(Ev("vtkWrite"))
    /\ pc' = "preciceAdvance"
    /\ UNCHANGED <<meshVars, exitVars, solverVars, timeLoop, precice,
                   preciceDt, ghostVars>>

\* const double preciceDt = precice.advance( timeLoop->timeStepSize() )
PreciceAdvance ==
    /\ pc = "preciceAdvance"
    /\ precice' \in AdvanceResults(precice)
    /\ preciceDt' \in PreciceDts
    /\ Log(Ev("advance"))
    /\ pc' = "setTimeStepSize"
    /\ UNCHANGED <<meshVars, exitVars, solverVars, timeLoop, vtkTimes,
                   ghostVars>>

\* newDt = std::max( preciceDt, timeLoop->timeStepSize() )
newDt(pDt, tl) == Max(pDt, tl.dt)

\* timeLoop->setTimeStepSize(nonLinearSolver.suggestTimeStepSize( newDt ))
SetTimeStepSize ==
    /\ pc = "setTimeStepSize"
    /\ \E d \in suggestTimeStepSize(newDt(preciceDt, timeLoop)) :
          /\ timeLoop' = setTimeStepSize(timeLoop, d)
          /\ hist' = [hist EXCEPT !.suggestion = d]
    /\ Log(Ev("setTimeStepSize"))
    /\ pc' = "loopCondition"
    /\ UNCHANGED <<meshVars, exitVars, solverVars, precice, preciceDt,
                   vtkTimes, accepted, iterStart>>

\* a loop condition that goes on while either side is willing
continueLoopEither(tl, p) == ~finished(tl) \/ isCouplingOngoing(p)

\* } while (!timeLoop->finished() && precice.isCouplingOngoing())
continueLoop(tl, p) == ~finished(tl) /\ isCouplingOngoing(p)

LoopCondition ==
    /\ pc = "loopCondition"
    /\ IF continueLoop(timeLoop, precice)
         THEN pc' = "queryWrite"
         ELSE pc' = "timeLoopFinalize"
    /\ hist' = [hist EXCEPT !.suggestion = 0]
    /\ UNCHANGED <<meshVars, exitVars, solverVars, timeLoop, precice,
                   preciceDt, vtkTimes, accepted, iterStart, iterEvents>>

\* a shutdown that leaves the time loop unfinalized
TimeLoopFinalizeSkipped ==
    /\ pc = "timeLoopFinalize"
    /\ pc' = "preciceFinalize"
    /\ UNCHANGED <<meshVars, exitVars, solverVars, timeLoop, precice,
                   preciceDt, vtkTimes, ghostVars, iterEvents>>

\* timeLoop->finalize(solidEnergyGridView.comm())
TimeLoopFinalize ==
    /\ pc = "timeLoopFinalize"
    /\ timeLoop' = [timeLoop EXCEPT !.finalized = @ + 1]
    /\ pc' = "preciceFinalize"
    /\ UNCHANGED <<meshVars, exitVars, solverVars, precice, preciceDt,
                   vtkTimes, ghostVars, iterEvents>>

\* a return that leaves the substrate unfinalized
PreciceFinalizeSkipped ==
    /\ pc = "preciceFinalize"
    /\ UNCHANGED precice
    /\ pc' = "done"
    /\ exitCode' = 0
    /\ UNCHANGED <<meshVars, thrown, solverVars, timeLoop, preciceDt,
                   vtkTimes, ghostVars, iterEvents>>

\* precice.finalize(); return 0
PreciceFinalize ==
    /\ pc = "preciceFinalize"
    /\ precice' = [Called(precice, "finalize") EXCEPT !.finalized = @ + 1]
    /\ pc' = "done"
    /\ exitCode' = 0
    /\ UNCHANGED <<meshVars, thrown, solverVars, timeLoop, preciceDt,
                   vtkTimes, ghostVars, iterEvents>>

\* ------------------------------------------------------------------------
\* main() of the Darcy driver (main_darcy.cc): it has no try block
\* ------------------------------------------------------------------------
Aborted == 134             \* exit status of a process ended by abort()

\* an exception that leaves main() uncaught: std::terminate aborts
Uncaught(e) ==
    /\ pc' = "done"
    /\ thrown' = e
    /\ exitCode' = Aborted

\* Parameters::init(argc, argv)
DarcyParametersInit ==
    /\ pc = "darcyParametersInit"
    /\ \/ pc' = "darcyGridInit" /\ UNCHANGED exitVars
       \/ Uncaught("Dumux::ParameterException")
    /\ UNCHANGED <<meshVars, solverVars, timeLoop, precice, preciceDt,
                   vtkTimes, ghostVars, iterEvents>>

\* darcyGridManager.init("Darcy") up to sol.resize(numDofs)
DarcyGridInit ==
    /\ pc = "darcyGridInit"
    /\ \/ pc' = "darcyAnnounceSolver" /\ sol' = 0 /\ UNCHANGED exitVars
       \/ Uncaught("Dune::DGFException") /\ UNCHANGED sol
    /\ UNCHANGED <<meshVars, solOld, sol_checkpoint, prevSol, gridVars,
                   ffGridVars, timeLoop, precice, preciceDt, vtkTimes,
                   ghostVars, iterEvents>>

\* CouplingAdapter::getInstance(); couplingInterface.announceSolver(...)
DarcyAnnounceSolver ==
    /\ pc = "darcyAnnounceSolver"
    /\ \/ /\ precice' = Called(Called(precice, "getInstance"),
                                 "announceSolver")
          /\ pc' = "darcySetup"
          /\ UNCHANGED exitVars
       \/ /\ Uncaught("std::runtime_error")
          /\ precice' = Called(precice, "getInstance")
    /\ UNCHANGED <<meshVars, solverVars, timeLoop, preciceDt, vtkTimes,
                   ghostVars, iterEvents>>

\* darcyGridVariables->init(sol); darcyVtkWriter.write(0.0)
DarcySetup ==
    /\ pc = "darcySetup"
    /\ gridVars' = [cur |-> sol, prev |-> sol]
    /\ vtkTimes' = Append(vtkTimes, 0)
    /\ pc' = "darcySolve"
    /\ UNCHANGED <<meshVars, exitVars, sol, solOld, sol_checkpoint, prevSol,
                   ffGridVars, timeLoop, precice, preciceDt, ghostVars,
                   iterEvents>>

\* nonLinearSolver.solve(sol): the stationary solve converges or throws
DarcySolve ==
    /\ pc = "darcySolve"
    /\ \E u \in SolValues :
          /\ sol' = u
          /\ gridVars' = [gridVars EXCEPT !.cur = u]
    /\ \/ pc' = "darcyWrite" /\ UNCHANGED exitVars
       \/ Uncaught("Dumux::NumericalProblem")
    /\ UNCHANGED <<meshVars, solOld, sol_checkpoint, prevSol, ffGridVars,
                   timeLoop, precice, preciceDt, vtkTimes, ghostVars,
                   iterEvents>>

\* darcyVtkWriter.write(1.0); printDarcyL2Error(...); return 0
DarcyWrite ==
    /\ pc = "darcyWrite"
    /\ vtkTimes' = Append(vtkTimes, 1)
    /\ pc' = "done"
    /\ exitCode' = 0
    /\ UNCHANGED <<meshVars, thrown, solverVars, timeLoop, precice,
                   preciceDt, ghostVars, iterEvents>>

\* ------------------------------------------------------------------------
\* The index mapper of the adapter (preciceadapter.hh: indexMapper_)
\* ------------------------------------------------------------------------
FaceIds == 1..MaxFaceId
FaceIdSeqs == UNION {[1..n -> FaceIds] : n \in 0..MaxIds}

\* one more entry in the table from face id to vertex index
WithEntry(t, f, i) == [x \in DOMAIN t \cup {f} |-> IF x = f THEN i ELSE t[x]]

\* a construction that keeps the first entry of a face id it sees again
RECURSIVE createMappingLenient(_, _)
createMappingLenient(ids, m) ==
    IF ids = <<>> THEN [m EXCEPT !.state = "frozen"]
    ELSE LET f == Head(ids)
         IN  createMappingLenient(Tail(ids),
                 [m EXCEPT !.toIndex = IF f \in DOMAIN @ THEN @
                                       ELSE WithEntry(@, f, Len(m.toLocal)),
                           !.toLocal = Append(@, f)])

\* construction from the ordered face ids: the position of an id becomes
\* its vertex index, an id seen before fails with DuplicateFace
RECURSIVE createMapping(_, _)
createMapping(ids, m) ==
    IF ids = <<>> THEN [m EXCEPT !.state = "frozen"]
    ELSE LET f == Head(ids)
         IN  IF f \in DOMAIN m.toIndex
               THEN [m EXCEPT !.state = "DuplicateFace"]
               ELSE createMapping(Tail(ids),
                        [m EXCEPT !.toIndex = WithEntry(@, f, Len(m.toLocal)),
                                  !.toLocal = Append(@, f)])

contains(m, f) == f \in DOMAIN m.toIndex
size(m) == Len(m.toLocal)
toIndex(m, f) == m.toIndex[f]
toLocal(m, i) == m.toLocal[i + 1]

MapperInit ==
    /\ driver = "adapter"
    /\ pc = "construct"
    /\ dumuxFaceIDs \in FaceIdSeqs
    /\ Fresh

\* setMeshAndInitialize(..., dumuxFaceIDs): the index mapper is built
MapperConstruct ==
    /\ pc = "construct"
    /\ indexMapper' = createMapping(dumuxFaceIDs, indexMapper)
    /\ IF indexMapper'.state = "frozen"
         THEN pc' = "mapped" /\ UNCHANGED thrown
         ELSE pc' = "done" /\ thrown' = "DuplicateFace"
    /\ UNCHANGED <<driver, coords, coupledScvfIndices, dumuxFaceIDs, lookup,
                   exitCode, solverVars, timeLoop, precice, preciceDt,
                   vtkTimes, ghostVars, iterEvents>>

\* toIndex(localFaceId): UnknownFace for an id that is not registered
MapperToIndex ==
    /\ pc = "mapped"
    /\ \E f \in FaceIds :
          lookup' = IF contains(indexMapper, f)
                      THEN [op |-> "toIndex", arg |-> f, error |-> "",
                            result |-> toIndex(indexMapper, f)]
                      ELSE [op |-> "toIndex", arg |-> f,
                            error |-> "UnknownFace", result |-> NoVal]
    /\ UNCHANGED <<driver, pc, coords, coupledScvfIndices, dumuxFaceIDs,
                   indexMapper, exitVars, solverVars, timeLoop, precice,
                   preciceDt, vtkTimes, ghostVars, iterEvents>>

\* toLocal(vertexIndex), precondition index < N
MapperToLocal ==
    /\ pc = "mapped"
    /\ \E i \in 0..(size(indexMapper) - 1) :
          lookup' = [op |-> "toLocal", arg |-> i, error |-> "",
                     result |-> toLocal(indexMapper, i)]
    /\ UNCHANGED <<driver, pc, coords, coupledScvfIndices, dumuxFaceIDs,
                   indexMapper, exitVars, solverVars, timeLoop, precice,
                   preciceDt, vtkTimes, ghostVars, iterEvents>>

MapperNext ==
    \/ MapperConstruct
    \/ MapperToIndex
    \/ MapperToLocal

SpecMapper == MapperInit /\ [][MapperNext]_vars

Next ==
    \/ DarcyParametersInit
    \/ DarcyGridInit
    \/ DarcyAnnounceSolver
    \/ DarcySetup
    \/ DarcySolve
    \/ DarcyWrite
    \/ ParametersInit
    \/ GridInit
    \/ PreciceConfigure
    \/ GetDimensions
    \/ SetMeshVertices
    \/ ApplyInitialSolution
    \/ PreciceInitialize
    \/ PreciceInitializeData
    \/ SetupSolver
    \/ TimeLoopSetup
    \/ QueryWrite
    \/ SaveCheckpoint
    \/ AckWrite
    \/ SetPreviousSolution
    \/ Solve
    \/ MakeOld
    \/ GridAdvance
    \/ QueryRead
    \/ Restore
    \/ GridUpdate
    \/ AckRead
    \/ TimeLoopAdvance
    \/ VtkWrite
    \/ PreciceAdvance
    \/ SetTimeStepSize
    \/ LoopCondition
    \/ TimeLoopFinalize
    \/ PreciceFinalize

Spec == Init /\ [][Next]_vars

\* main() runs on its one thread until it returns or an exception ends it
FairSpec == Spec /\ WF_vars(Next)

TypeOK ==
    /\ exitCode \in {Running, 0, 1, 2, 3, 4, Aborted}
    /\ hist.solves \in 0..MaxCount
    /\ Len(coords) = 2 * Len(coupledScvfIndices)
    /\ sol \in SolValues \cup {NoVal}
    /\ timeLoop.time \in 0..TEnd
    /\ timeLoop.dt \in 0..TEnd
    /\ timeLoop.started /\ ~finished(timeLoop) => timeLoop.dt >= 1
    /\ precice.required \subseteq Actions
    /\ Len(iterEvents) <= 12

\* ------------------------------------------------------------------------
\* Properties of the coupling loop
\* ------------------------------------------------------------------------
AfterLoop == {"timeLoopFinalize", "preciceFinalize", "done"}
LoopExit == pc = "timeLoopFinalize"
IterationEnd == pc = "loopCondition"

Has(e) == \E i \in 1..Len(iterEvents) : iterEvents[i].ev = e
HasOn(e, a) ==
    \E i \in 1..Len(iterEvents) : iterEvents[i] = EvOn(e, a)
Before(a, b) ==
    \E i, j \in 1..Len(iterEvents) :
        i < j /\ iterEvents[i].ev = a /\ iterEvents[j].ev = b
Count(e) == Cardinality({i \in 1..Len(iterEvents) : iterEvents[i].ev = e})
RolledBack == HasOn("query", readCheckpoint)

C2_SolOldOnlyOnAcceptance ==
    IterationEnd /\ RolledBack => solOld = iterStart.solOld

\* C3: after an advance that returned preciceDt, the step size set on the
\* time loop for the next solve is at most preciceDt.
C3_DtClamp ==
    IterationEnd /\ Has("advance") => timeLoop.dt <= preciceDt

\* C4: in every iteration the events come in the order checkpoint-save,
\* solve, substrate advance, and only then the accept-or-restore decision:
\* advance precedes the time-loop advance and the VTK write of an accepted
\* iteration and the restore of a rolled-back one.
Rank(e) ==
    CASE e = "save" -> 1
      [] e = "solve" -> 3
      [] e = "advance" -> 5
      [] e \in {"restore", "timeLoopAdvance", "vtkWrite"} -> 6
      [] OTHER -> 0
C4_Order ==
    /\ \A i, j \in 1..Len(iterEvents) :
          i < j /\ Rank(iterEvents[i].ev) > 0 /\ Rank(iterEvents[j].ev) > 0
              => Rank(iterEvents[i].ev) <= Rank(iterEvents[j].ev)
    /\ \A e \in {"restore", "timeLoopAdvance", "vtkWrite"} :
          Has(e) => Before("advance", e)

\* C5: every Newton solve is followed by exactly one substrate advance
\* before the next solve or the loop exit, also in a rolled-back iteration.
C5_AdvancePairedWithSolve ==
    IterationEnd => Count("solve") = 1 /\ Count("advance") = 1

\* C6: the driver acknowledges exactly the action it found required: every
\* acknowledgment names an action that was queried true before it, and the
\* first substrate call after a true query is the acknowledgment of that
\* same action.
SubstrateCalls == {"query", "ack", "advance"}
AtSubstrateCall ==
    pc \in {"queryRead", "ackWrite", "ackRead", "preciceAdvance", "loopCondition"}
C6_AckMatchesQuery ==
    /\ \A j \in 1..Len(iterEvents) :
          iterEvents[j].ev = "ack" =>
              \E i \in 1..(j - 1) : iterEvents[i] = EvOn("query", iterEvents[j].arg)
    /\ \A i \in 1..Len(iterEvents) :
          iterEvents[i].ev = "query" =>
              LET later == {j \in (i + 1)..Len(iterEvents) :
                                iterEvents[j].ev \in SubstrateCalls}
              IN  IF later = {}
                    THEN AtSubstrateCall => pc \in {"ackWrite", "ackRead"}
                    ELSE \E j \in later :
                            /\ \A k \in later : j <= k
                            /\ iterEvents[j] = EvOn("ack", iterEvents[i].arg)

\* C7: at both checkpoint call sites the order is query, work, acknowledge:
\* an acknowledgment is sent only after a true query of the same iteration
\* and after the work of that call site is complete, the copy into the
\* checkpoint at the first site, the copy back and the grid-variable update
\* at the second.
WorkOf(a) ==
    IF a = writeCheckpoint THEN <<"save">> ELSE <<"restore", "gridUpdate">>
C7_QueryDoAck ==
    /\ \A j \in 1..Len(iterEvents) :
          iterEvents[j].ev = "ack" =>
              \E i \in 1..(j - 1) :
                  /\ iterEvents[i].ev = "query"
                  /\ j - i - 1 = Len(WorkOf(iterEvents[i].arg))
                  /\ \A k \in 1..(j - i - 1) :
                        iterEvents[i + k].ev = WorkOf(iterEvents[i].arg)[k]
    /\ pc = "ackWrite" => sol_checkpoint = sol
    /\ pc = "ackRead" => sol = sol_checkpoint /\ ffGridVars = sol

C7_Witness ==
    /\ IterationEnd
    /\ Count("ack") = 2
    /\ Has("save")
    /\ Has("gridUpdate")

\* C8: after a rolled-back iteration the solution is the checkpointed one
\* and the solver's grid variables are those of update(checkpoint), with
\* no time-step advance of the rejected solve left in them.
C8_RestoredTogether ==
    IterationEnd /\ RolledBack =>
        /\ sol = sol_checkpoint
        /\ gridVars.cur = sol_checkpoint
        /\ gridVars.prev = iterStart.gridPrev

\* C9 as stated: after a rolled-back iteration the time, the step index and
\* the step size of the time loop equal their values before the iteration.
C9_ClockUntouched ==
    IterationEnd /\ RolledBack =>
        /\ timeLoop.time = iterStart.time
        /\ timeLoop.idx = iterStart.idx
        /\ timeLoop.dt = iterStart.dt

\* C9 amended: after a rolled-back iteration the time and the step index
\* equal their values before the iteration, and the step size is the one
\* before the iteration or that value halved by the retries of the Newton
\* solve; the rollback itself leaves the time loop alone.
C9_ClockNotAdvanced ==
    (RolledBack /\ pc \in {"restore", "gridUpdate", "ackRead", "loopCondition"}) =>
        /\ timeLoop.time = iterStart.time
        /\ timeLoop.idx = iterStart.idx
        /\ \E r \in 0..MaxTimeStepDivisions :
              /\ CanHalve(iterStart.dt, r)
              /\ timeLoop.dt = Halved(iterStart.dt, r)

C9_Witness ==
    /\ IterationEnd
    /\ RolledBack
    /\ timeLoop.time > 0
    /\ timeLoop.dt < iterStart.dt

\* C10: the loop is left at the end of the first iteration after which the
\* time loop is finished or the coupling is no longer ongoing, it goes on
\* when neither holds, and nothing is solved, advanced or written after it.
C10_LoopTermination ==
    [][ /\ pc = "loopCondition" =>
            pc' = IF timeLoop.time >= TEnd \/ ~precice.ongoing
                     THEN "timeLoopFinalize" ELSE "queryWrite"
        /\ pc \in AfterLoop =>
            /\ pc' \in AfterLoop
            /\ UNCHANGED <<meshVars, solverVars, vtkTimes, accepted,
                           iterEvents>>
            /\ precice'.required = precice.required
            /\ timeLoop'.time = timeLoop.time ]_vars

C10_Witness ==
    /\ LoopExit
    /\ ~precice.ongoing
    /\ timeLoop.time < TEnd
    /\ accepted >= 1
\* ------------------------------------------------------------------------
\* Properties of the clock, the checkpoint and the start-up
\* ------------------------------------------------------------------------
FirstIterationStart ==
    pc = "queryWrite" /\ timeLoop.started /\ hist.dtInitial > 0

\* C11: the times of the VTK frames are strictly increasing in the order
\* they are written, and the current time of the time loop never decreases,
\* however accepted and rolled-back iterations alternate.
C11_ClockMonotone ==
    /\ [](\A i, j \in 1..Len(vtkTimes) : i < j => vtkTimes[i] < vtkTimes[j])
    /\ [][timeLoop'.time >= timeLoop.time]_vars

C11_Witness == Len(vtkTimes) >= 3 /\ RolledBack /\ IterationEnd

\* C12: a restore leaves the snapshot in place and is idempotent: every
\* restore yields the solution of the most recent save, so a second restore
\* with no save in between yields what the first one yielded.
C12_RestoreIdempotent ==
    [][pc = "restore" =>
          /\ sol' = hist.lastSaved
          /\ hist.lastRestored # NoVal => sol' = hist.lastRestored
          /\ sol_checkpoint' = sol_checkpoint]_vars

C12_Witness == pc = "gridUpdate" /\ hist.restoredTwice

\* C13: the snapshot changes in an iteration only if writeIterationCheckpoint
\* was required at its start; the save is done only while the substrate
\* requires writeIterationCheckpoint and the restore only while it requires
\* readIterationCheckpoint, and nothing else in the loop writes the snapshot,
\* so in a run where the substrate never requires a checkpoint action the
\* snapshot is neither saved in the loop nor restored.
C13_CheckpointOnRequest ==
    /\ [](timeLoop.started /\ ~FirstIterationStart
            /\ sol_checkpoint # iterStart.checkpoint =>
               /\ iterEvents # <<>>
               /\ iterEvents[1] = EvOn("query", writeCheckpoint))
    /\ [][ /\ pc = "save" => isActionRequired(precice, writeCheckpoint)
           /\ pc = "restore" => isActionRequired(precice, readCheckpoint)
           /\ sol_checkpoint' # sol_checkpoint =>
                 pc \in {"timeLoopSetup", "save"} ]_vars

C13_Witness ==
    /\ LoopExit
    /\ accepted >= 2
    /\ precice.required = {}
    /\ iterEvents[1].ev = "setPreviousSolution"
    /\ sol_checkpoint # sol

\* C14: the step size proposed after an accepted iteration is the minimum
\* of preciceDt and the suggestion of the Newton solver (within the limits
\* of the time loop), so a substrate that returns half the initial step
\* makes the second step half as long whatever the solver suggests.
C14_DtIsMin ==
    IterationEnd /\ Has("setTimeStepSize") =>
        timeLoop.dt = Min(Min(preciceDt, hist.suggestion),
                          maxTimeStepSize(timeLoop))

\* C15 as stated: the first time step is started with
\* dt = max(DtInitial, preciceDt of initialize()).
C15_FirstDtIsMax ==
    FirstIterationStart => timeLoop.dt = Max(hist.dtInitial, preciceDt)

\* C15 amended: the first time step is started with
\* max(DtInitial, preciceDt of initialize()), limited by MaxTimeStepSize
\* and by the end time.
C15_FirstDtIsClampedMax ==
    FirstIterationStart =>
        timeLoop.dt = Min(Max(hist.dtInitial, preciceDt),
                          Min(timeLoop.maxDt, TEnd))

C15_Witness ==
    /\ FirstIterationStart
    /\ preciceDt > hist.dtInitial
    /\ timeLoop.dt = preciceDt

\* C16: the number of solOld updates equals the number of accepted
\* iterations and the number of Newton solves equals the accepted plus the
\* rolled-back iterations (three solves, one frame and one solOld update
\* per step when every step takes two rollbacks).
C16_Counts ==
    (IterationEnd /\ hist.solves < MaxCount /\ hist.solOldUpdates < MaxCount
        /\ hist.rolledBack < MaxCount) =>
        /\ hist.solOldUpdates = accepted
        /\ hist.solves = accepted + hist.rolledBack

\* C17: when the coupling ends before the time loop is finished the driver
\* leaves the loop without another solve, finalizes the time loop and then
\* the substrate, each exactly once, and returns 0; nothing follows the
\* substrate's finalize.
EndedEarly ==
    /\ driver = "solidEnergy"
    /\ pc \in AfterLoop
    /\ thrown = ""
    /\ ~finished(timeLoop)
C17_CleanShutdown ==
    /\ EndedEarly =>
          /\ ~precice.ongoing
          /\ iterEvents[Len(iterEvents)].ev \in {"ack", "setTimeStepSize"}
          /\ pc = "timeLoopFinalize" =>
                timeLoop.finalized = 0 /\ precice.finalized = 0
          /\ pc = "preciceFinalize" =>
                timeLoop.finalized = 1 /\ precice.finalized = 0
          /\ pc = "done" =>
                timeLoop.finalized = 1 /\ precice.finalized = 1 /\ exitCode = 0
    /\ precice.finalized >= 1 => pc = "done"

C17_Witness == EndedEarly /\ pc = "done" /\ accepted >= 1

\* C18: the mesh is never registered with zero vertices: a traversal that
\* finds no coupling face ends the run before setMeshVertices.
C18_NoEmptyMesh == precice.meshVertices # 0

\* C19: when the substrate's dimension differs from the grid's, the run
\* ends at the check with a non-zero exit code: no mesh is registered, the
\* substrate is not initialized, nothing is solved and no frame is written.
C19_DimensionMismatch ==
    (precice.dim \notin {0, gridDimension} /\ pc # "getDimensions") =>
        /\ pc = "done"
        /\ exitCode \notin {Running, 0}
        /\ precice.meshVertices = NoVal
        /\ ~precice.initialized
        /\ sol = NoVal
        /\ vtkTimes = <<>>
        /\ iterEvents = <<>>

C19_Witness == pc = "done" /\ precice.dim = 3 /\ exitCode = 3

\* C20: in every driver the exit code tells the outcome: 0 for a complete
\* run, 1 for a parameter error, 2 for a grid-file error, 3 for any other
\* error of the framework, 4 for any other exception.
ExpectedExitCode(e) ==
    CASE e = "" -> 0
      [] e = "Dumux::ParameterException" -> 1
      [] e = "Dune::DGFException" -> 2
      [] e \in {"Dune::InvalidStateException", "Dumux::NumericalProblem",
                "Dune::IOError", "Dune::Exception"} -> 3
      [] OTHER -> 4
C20_ExitCodes == pc = "done" => exitCode = ExpectedExitCode(thrown)

\* ------------------------------------------------------------------------
\* Properties of failures, of the substrate's lifecycle and of the interface
\* ------------------------------------------------------------------------
SolveFailed == thrown = "Dumux::NumericalProblem"

\* C21: a failed Newton solve is fatal and never a rollback: the run ends
\* at the failed solve with an error exit code, the solve is the last event
\* of its iteration (no restore, solve, advance or frame follows), no step
\* is taken after it, and the restore is reached only through a query that
\* found readIterationCheckpoint required.
C21_SolveFailureFatal ==
    /\ [](SolveFailed =>
            /\ pc = "done"
            /\ exitCode \notin {Running, 0}
            /\ driver = "solidEnergy" =>
                  /\ iterEvents[Len(iterEvents)].ev = "solve"
                  /\ Count("solve") = 1
                  /\ ~Has("restore")
                  /\ Len(vtkTimes) = 1 + accepted)
    /\ [](pc \in {"restore", "gridUpdate", "ackRead"} =>
            /\ RolledBack
            /\ isActionRequired(precice, readCheckpoint))
    /\ [][~SolveFailed]_vars

C21_Witness ==
    /\ SolveFailed
    /\ driver = "solidEnergy"
    /\ exitCode = 3
    /\ accepted >= 1
    /\ hist.rolledBack >= 1

\* C22: the substrate's lifecycle is respected in every run: the solver is
\* created and configured before any other substrate call, the mesh is
\* registered before initialize(), initializeData() follows initialize(),
\* nothing follows finalize(), and every action query, acknowledgment,
\* advance and isCouplingOngoing of the loop is made after initializeData()
\* and before finalize(); in the Darcy driver the adapter calls are
\* getInstance and then announceSolver.
CallPos(c) ==
    IF \E i \in 1..Len(precice.calls) : precice.calls[i] = c
      THEN CHOOSE i \in 1..Len(precice.calls) : precice.calls[i] = c
      ELSE 0
WasCalled(c) == CallPos(c) > 0
CalledAfter(a, b) == WasCalled(b) => WasCalled(a) /\ CallPos(a) < CallPos(b)
LoopCallSites ==
    {"queryWrite", "ackWrite", "queryRead", "ackRead", "preciceAdvance",
     "loopCondition"}
C22_Lifecycle ==
    /\ [](\A i, j \in 1..Len(precice.calls) :
             i # j => precice.calls[i] # precice.calls[j])
    /\ [](driver = "solidEnergy" =>
            /\ \A i \in 1..Len(precice.calls) :
                  /\ i = 1 => precice.calls[i] = "SolverInterface"
                  /\ i = 2 => precice.calls[i] = "configure"
            /\ CalledAfter("setMeshVertices", "initialize")
            /\ CalledAfter("initialize", "initializeData")
            /\ CalledAfter("initializeData", "finalize")
            /\ WasCalled("finalize") =>
                  CallPos("finalize") = Len(precice.calls))
    /\ [](driver = "darcy" =>
            precice.calls \in {<<>>, <<"getInstance">>,
                               <<"getInstance", "announceSolver">>})
    /\ [][(pc \in LoopCallSites) =>
            (WasCalled("initializeData") /\ ~WasCalled("finalize"))]_vars

C22_Witness ==
    /\ pc = "done"
    /\ driver = "solidEnergy"
    /\ accepted >= 1
    /\ precice.calls = <<"SolverInterface", "configure", "getDimensions",
                         "setMeshVertices", "initialize", "initializeData",
                         "finalize">>

\* C23: the index mapping built from the ordered face ids is a bijection
\* onto [0, N): a built mapper holds every id of the sequence at its
\* position, toLocal(toIndex(f)) = f for every registered face f,
\* toIndex(toLocal(i)) = i for every index i in [0, N), and a sequence
\* with a duplicate face id is not built but fails with DuplicateFace.
HasDuplicate(ids) ==
    \E i, j \in 1..Len(ids) : i # j /\ ids[i] = ids[j]
C23_IndexBijection ==
    /\ indexMapper.state = "frozen" =>
          /\ size(indexMapper) = Len(dumuxFaceIDs)
          /\ \A k \in 1..Len(dumuxFaceIDs) :
                /\ contains(indexMapper, dumuxFaceIDs[k])
                /\ toLocal(indexMapper, k - 1) = dumuxFaceIDs[k]
                /\ toLocal(indexMapper,
                           toIndex(indexMapper, dumuxFaceIDs[k]))
                      = dumuxFaceIDs[k]
          /\ \A i \in 0..(size(indexMapper) - 1) :
                toIndex(indexMapper, toLocal(indexMapper, i)) = i
    /\ (pc # "construct" /\ HasDuplicate(dumuxFaceIDs)) =>
          /\ indexMapper.state = "DuplicateFace"
          /\ thrown = "DuplicateFace"
          /\ lookup = <<>>

C23_Witness ==
    /\ indexMapper.state = "frozen"
    /\ size(indexMapper) = MaxIds
    /\ lookup # <<>>
    /\ lookup.op = "toLocal"
    /\ lookup.result # lookup.arg + 1

\* C24: liveness of the coupling loop: in a run of the solid-energy driver
\* in which no exception is ever thrown (the Newton solve always succeeds),
\* with positive step sizes and a substrate that keeps an action required
\* only until it is acknowledged or the next advance, the driver eventually
\* leaves the loop and calls the substrate's finalize.
C24_LoopLeaves ==
    (driver = "solidEnergy" /\ [](thrown = "")) => <>(precice.finalized >= 1)

\* C25: in a run of the solid-energy driver the substrate's finalize and
\* the time loop's finalize are each called at most once, and a run that
\* has ended called them if and only if its exit code is 0: an error exit
\* (codes 1 to 4), also one raised after the substrate was created, has
\* called neither.
C25_FinalizeIffSuccess ==
    /\ precice.finalized <= 1
    /\ timeLoop.finalized <= 1
    /\ (driver = "solidEnergy" /\ pc = "done") =>
          /\ exitCode = 0 <=> precice.finalized = 1
          /\ exitCode = 0 <=> WasCalled("finalize")
          /\ exitCode = 0 <=> timeLoop.finalized = 1
    /\ (driver = "solidEnergy" /\ exitCode \in 1..4) =>
          /\ pc = "done"
          /\ precice.finalized = 0
          /\ timeLoop.finalized = 0

C25_Witness ==
    /\ driver = "solidEnergy"
    /\ pc = "done"
    /\ exitCode = 3
    /\ precice.initialized
    /\ accepted >= 1
    /\ precice.finalized = 0

\* C26: the interface extraction keeps coordinates and face ids parallel:
\* after the traversal the coordinate array has dim entries per collected
\* face id, in traversal order, the vertex count registered with the
\* substrate equals the number of collected face ids, and the entries
\* [i*dim, (i+1)*dim) are the centre of the i-th collected face, a face
\* that lies on the top boundary.
FaceCoords(i) ==
    SubSeq(coords, (i - 1) * gridDimension + 1, i * gridDimension)
C26_ParallelArrays ==
    /\ precice.meshVertices = NoVal =>
          coords = <<>> /\ coupledScvfIndices = <<>>
    /\ precice.meshVertices # NoVal =>
          /\ Len(coords) = gridDimension * Len(coupledScvfIndices)
          /\ precice.meshVertices = Len(coupledScvfIndices)
          /\ \A i \in 1..Len(coupledScvfIndices) :
                /\ FaceCoords(i)[1] = coupledScvfIndices[i]
                /\ FaceCoords(i)[2] > GridTop - eps
          /\ \A i, j \in 1..Len(coupledScvfIndices) :
                i < j => coupledScvfIndices[i] < coupledScvfIndices[j]

C26_Witness ==
    /\ pc = "applyInitialSolution"
    /\ precice.meshVertices = 3
    /\ coupledScvfIndices[1] > 1
    /\ coupledScvfIndices[2] > coupledScvfIndices[1] + 1
    /\ FaceCoords(3) = <<coupledScvfIndices[3], GridTop>>

\* C27: whenever a restore is performed the restored solution is a value
\* the solution held at an earlier point of the run: the checkpoint always
\* holds the solution as it was at the most recent save, or, before any
\* save, the initial solution copied when the checkpoint was created; it
\* is never an unconstructed value, and the restore yields exactly it.
C27_RestoreProvenance ==
    /\ [](timeLoop.started =>
            /\ sol_checkpoint \in SolValues
            /\ sol_checkpoint = hist.lastSaved)
    /\ [](FirstIterationStart =>
            /\ hist.solves = 0
            /\ sol_checkpoint = sol
            /\ sol = solOld)
    /\ [][hist'.lastSaved # hist.lastSaved =>
            /\ pc \in {"timeLoopSetup", "save"}
            /\ hist'.lastSaved = sol
            /\ sol \in SolValues]_vars
    /\ [][pc = "restore" =>
            /\ sol' = sol_checkpoint
            /\ sol' \in SolValues]_vars

C27_Witness ==
    /\ pc = "gridUpdate"
    /\ Has("restore")
    /\ ~Has("save")
    /\ accepted >= 1
    /\ sol = sol_checkpoint
    /\ sol # solOld
====
